---- MODULE Spec2Model ----
(***************************************************************************)
(* plone.api.validation: the parameter-validation decorators.              *)
(*                                                                         *)
(* A target function with a declared parameter list is decorated with one  *)
(* or more rules (required_parameters, mutually_exclusive_parameters,      *)
(* required_parameter_type, at_least_one_of).  Decoration resolves the     *)
(* signature (_get_arg_spec); every call runs the wrappers from the        *)
(* outermost inwards, each reconciling the call's positional and keyword   *)
(* arguments (_get_supplied_args) and applying its check before calling    *)
(* the function it wraps.                                                  *)
(***************************************************************************)
EXTENDS Integers, Sequences, FiniteSets, TLC

VARIABLES
    signature,    \* declared (named) parameters of the target, in order
    variadic,     \* whether the target also declares *args
    stack,        \* rules applied so far; stack[Len(stack)] is the outermost
    lastDeco,     \* the last decoration attempted: the rule and its outcome
    pc,           \* "idle" | "configerror" | "checking" | "returned" | "raised"
    call,         \* the call in progress: [args, kwargs]
    depth,        \* the wrapper holding control (0: none)
    supplied,     \* supplied_args built by the wrapper that ran last
    evaluated,    \* the wrappers whose check has run in this call, in order
    result,       \* the exception raised by the call, if any
    invocations,  \* the calls the target function has received
    targetRet,    \* what the target returned
    retval        \* what the decorated function returned to its caller

vars == <<signature, variadic, stack, lastDeco, pc, call, depth, supplied,
          evaluated, result, invocations, targetRet, retval>>

----------------------------------------------------------------------------
(* Bounds *)

\* longest list of names given to one decorator
MaxNames == 2
\* most decorators stacked on one function
MaxStack == 2
\* most positional arguments beyond the named parameters (variadic targets)
MaxExtra == 1

----------------------------------------------------------------------------
(* Python values *)

None == "None"

\* None, the integers 0, 1, 2 and the string 's'
Values == {None, "0", "1", "2", "'s'"}

Types == {"int", "str"}

PyType(v) ==
    IF v = None THEN "NoneType"
    ELSE IF v \in {"0", "1", "2"} THEN "int"
    ELSE "str"

\* bool(v): None and 0 are falsy
Truthy(v) == v \notin {None, "0"}

IsInstance(v, t) == PyType(v) = t

\* what the target function may return
Results == {"r1", "r2"}

ParamNames == {"a", "b", "c"}

Signatures == {<<"a", "b">>, <<"a", "b", "c">>}

EmptyMap == [n \in {} |-> None]

ToSet(s) == {s[i] : i \in DOMAIN s}

SeqsUpTo(S, n) == UNION {[1..k -> S] : k \in 0..n}

\* the orders in which a dict with the keys S can be iterated
Orderings(S) ==
    {s \in [1..Cardinality(S) -> S] :
        \A i, j \in DOMAIN s : i # j => s[i] # s[j]}

----------------------------------------------------------------------------
(* Rules and calls *)

GroupKinds == {"required", "exclusive", "atleast"}

\* a decorator with its configuration
Rules ==
    [kind : GroupKinds, names : SeqsUpTo(ParamNames, MaxNames), type : {""}]
    \cup [kind : {"type"}, names : {<<n>> : n \in ParamNames}, type : Types]

\* the rules the stacked specification draws from: each group rule on a, on b
\* and on (a, b), and each type constraint on a and on b
StackRules ==
    {r \in Rules :
        \/ r.kind \in GroupKinds /\ r.names \in {<<"a">>, <<"b">>, <<"a", "b">>}
        \/ r.kind = "type" /\ r.names \in {<<"a">>, <<"b">>}}

\* the calls Python binds to the signature: positional arguments fill the
\* parameters in order (more than the named ones only for *args), keyword
\* arguments name parameters not bound positionally
Calls(sig, extra) ==
    UNION {
      UNION {
        {[args |-> a, kwargs |-> k] :
            k \in [D -> Values]} :
        D \in SUBSET {sig[i] : i \in {j \in DOMAIN sig : j > Len(a)}}} :
      a \in SeqsUpTo(Values, Len(sig) + extra)}

NoCall == [args |-> <<>>, kwargs |-> EmptyMap]

Exc(kind, names, actual, expected) ==
    [kind |-> kind, names |-> names, actual |-> actual, expected |-> expected]

NoExc == Exc("none", <<>>, "", "")

NoDeco == [rule |-> [kind |-> "none", names |-> <<>>, type |-> ""],
           error |-> FALSE]

----------------------------------------------------------------------------
(* _get_arg_spec *)

\* faulty variant: the check for names outside the signature is dropped
GetArgSpecUnchecked(signature_args, validator_args) ==
    [error |-> FALSE, params |-> signature_args]

GetArgSpec(signature_args, validator_args) ==
    LET extra_args == ToSet(validator_args) \ ToSet(signature_args)
    IN  IF extra_args # {}
        THEN [error |-> TRUE, params |-> <<>>]
        ELSE [error |-> FALSE, params |-> signature_args]

\* the names each decorator hands to _get_arg_spec
ValidatorArgs(rule) ==
    IF rule.kind = "type" THEN <<>> ELSE rule.names

----------------------------------------------------------------------------
(* _get_supplied_args *)

RECURSIVE PositionalLoop(_, _, _, _)
PositionalLoop(signature_params, args, i, acc) ==
    IF i > Len(args) THEN [error |-> FALSE, map |-> acc]
    ELSE IF args[i] = None
    THEN PositionalLoop(signature_params, args, i + 1, acc)
    ELSE IF i > Len(signature_params)
    THEN [error |-> TRUE, map |-> acc]
    ELSE PositionalLoop(signature_params, args, i + 1,
                        (signature_params[i] :> args[i]) @@ acc)

\* faulty variant: keyword arguments passed as None are kept
KeywordLoopKeepsNone(kwargs, acc) ==
    [k \in DOMAIN acc \cup DOMAIN kwargs |->
        IF k \in DOMAIN kwargs THEN kwargs[k] ELSE acc[k]]

KeywordLoop(kwargs, acc) ==
    LET given == {k \in DOMAIN kwargs : kwargs[k] # None}
    IN  [k \in DOMAIN acc \cup given |->
            IF k \in given THEN kwargs[k] ELSE acc[k]]

GetSuppliedArgs(signature_params, args, kwargs) ==
    LET pos == PositionalLoop(signature_params, args, 1, EmptyMap)
    IN  IF pos.error
        THEN [error |-> TRUE, map |-> EmptyMap]
        ELSE [error |-> FALSE, map |-> KeywordLoop(kwargs, pos.map)]

----------------------------------------------------------------------------
(* The checks of the four wrappers: the set of exceptions the check can    *)
(* raise on supplied_args ({} when it passes).                             *)

\* faulty variant: only the first missing name is reported
RequiredCheckFirstOnly(required_params, supplied_args) ==
    LET IsMissing(p) == p \notin DOMAIN supplied_args
        missing == SelectSeq(required_params, IsMissing)
    IN  IF Len(missing) # 0
        THEN {Exc("MissingParameterError", <<missing[1]>>, "", "")}
        ELSE {}

RequiredCheck(required_params, supplied_args) ==
    LET IsMissing(p) == p \notin DOMAIN supplied_args
        missing == SelectSeq(required_params, IsMissing)
    IN  IF Len(missing) # 0
        THEN {Exc("MissingParameterError", missing, "", "")}
        ELSE {}

\* faulty variant: the error names the clashing parameters only
ExclusiveCheckNamesClashes(exclusive_params, supplied_args) ==
    LET clashes == {s \in DOMAIN supplied_args : s \in ToSet(exclusive_params)}
    IN  IF Cardinality(clashes) > 1
        THEN {Exc("InvalidParameterError", o, "", "") : o \in Orderings(clashes)}
        ELSE {}

ExclusiveCheck(exclusive_params, supplied_args) ==
    LET clashes == {s \in DOMAIN supplied_args : s \in ToSet(exclusive_params)}
    IN  IF Cardinality(clashes) > 1
        THEN {Exc("InvalidParameterError", o, "", "") :
                 o \in Orderings(DOMAIN supplied_args)}
        ELSE {}

TypeCheck(parameter_name, parameter_type, supplied_args) ==
    LET param_value == IF parameter_name \in DOMAIN supplied_args
                       THEN supplied_args[parameter_name]
                       ELSE None
    IN  IF Truthy(param_value) /\ ~IsInstance(param_value, parameter_type)
        THEN {Exc("InvalidParameterError", <<parameter_name>>,
                  PyType(param_value), parameter_type)}
        ELSE {}

\* faulty variant: every candidate is demanded
AtLeastCheckAll(candidate_params, supplied_args) ==
    LET candidates == {s \in DOMAIN supplied_args : s \in ToSet(candidate_params)}
    IN  IF Cardinality(candidates) < Cardinality(ToSet(candidate_params))
        THEN {Exc("MissingParameterError", candidate_params, "", "")}
        ELSE {}

AtLeastCheck(candidate_params, supplied_args) ==
    LET candidates == {s \in DOMAIN supplied_args : s \in ToSet(candidate_params)}
    IN  IF Cardinality(candidates) < 1
        THEN {Exc("MissingParameterError", candidate_params, "", "")}
        ELSE {}

RuleCheck(rule, supplied_args) ==
    CASE rule.kind = "required"  -> RequiredCheck(rule.names, supplied_args)
      [] rule.kind = "exclusive" -> ExclusiveCheck(rule.names, supplied_args)
      [] rule.kind = "type"      -> TypeCheck(rule.names[1], rule.type, supplied_args)
      [] rule.kind = "atleast"   -> AtLeastCheck(rule.names, supplied_args)

----------------------------------------------------------------------------
(* Decoration *)

\* @rule applied to the function as decorated so far, for a rule of `rules`
Decorate(rules, limit) ==
    /\ pc = "idle"
    /\ Len(stack) < limit
    /\ \E rule \in rules :
         LET spec == GetArgSpec(signature, ValidatorArgs(rule))
         IN  /\ lastDeco' = [rule |-> rule, error |-> spec.error]
             /\ IF spec.error
                THEN /\ pc' = "configerror"
                     /\ stack' = stack
                ELSE /\ pc' = "idle"
                     /\ stack' = Append(stack, rule)
    /\ UNCHANGED <<signature, variadic, call, depth, supplied, evaluated,
                   result, invocations, targetRet, retval>>

\* faulty variant: a call enters the innermost wrapper
EntryWrapperInnermost(rules) == 1

\* the wrapper a call of the decorated function enters first
EntryWrapper(rules) == Len(rules)

ExtraArgs == IF variadic THEN MaxExtra ELSE 0

\* a caller calls the decorated function
Call ==
    /\ pc = "idle"
    /\ Len(stack) >= 1
    /\ \E c \in Calls(signature, ExtraArgs) : call' = c
    /\ depth' = EntryWrapper(stack)
    /\ pc' = "checking"
    /\ UNCHANGED <<signature, variadic, stack, lastDeco, supplied, evaluated,
                   result, invocations, targetRet, retval>>

\* raise: the exception leaves every enclosing wrapper
Raise(e) ==
    /\ pc' = "raised"
    /\ result' = e
    /\ UNCHANGED <<depth, invocations, targetRet, retval>>

\* faulty variant: the keyword arguments are not handed on to the target
CallFDropsKwargs ==
    IF depth = 1
    THEN \E rv \in Results :
            /\ invocations' = Append(invocations,
                                     [args |-> call.args, kwargs |-> EmptyMap])
            /\ targetRet' = rv
            /\ retval' = rv
            /\ depth' = 0
            /\ pc' = "returned"
            /\ UNCHANGED result
    ELSE /\ depth' = depth - 1
         /\ pc' = "checking"
         /\ UNCHANGED <<result, invocations, targetRet, retval>>

\* faulty variant: every wrapper invokes the target itself before handing on
CallFEveryLevel ==
    IF depth = 1
    THEN \E rv \in Results :
            /\ invocations' = Append(invocations, call)
            /\ targetRet' = rv
            /\ retval' = rv
            /\ depth' = 0
            /\ pc' = "returned"
            /\ UNCHANGED result
    ELSE /\ invocations' = Append(invocations, call)
         /\ depth' = depth - 1
         /\ pc' = "checking"
         /\ UNCHANGED <<result, targetRet, retval>>

\* return f(*args, **kwargs): f is the next wrapper inwards, or the target
CallF ==
    IF depth = 1
    THEN \E rv \in Results :
            /\ invocations' = Append(invocations, call)
            /\ targetRet' = rv
            /\ retval' = rv
            /\ depth' = 0
            /\ pc' = "returned"
            /\ UNCHANGED result
    ELSE /\ depth' = depth - 1
         /\ pc' = "checking"
         /\ UNCHANGED <<result, invocations, targetRet, retval>>

\* the body of wrapped(f, *args, **kwargs) of the wrapper holding control
Wrapped ==
    /\ pc = "checking"
    /\ depth >= 1
    /\ evaluated' = Append(evaluated, depth)
    /\ LET rec == GetSuppliedArgs(signature, call.args, call.kwargs)
       IN  IF rec.error
           THEN /\ supplied' = supplied
                /\ Raise(Exc("IndexError", <<>>, "", ""))
           ELSE /\ supplied' = rec.map
                /\ LET raised == RuleCheck(stack[depth], rec.map)
                   IN  IF raised # {}
                       THEN \E e \in raised : Raise(e)
                       ELSE CallF
    /\ UNCHANGED <<signature, variadic, stack, lastDeco, call>>

----------------------------------------------------------------------------
(* Specifications *)

InitWith(sigs, var) ==
    /\ signature \in sigs
    /\ variadic \in var
    /\ stack = <<>>
    /\ lastDeco = NoDeco
    /\ pc = "idle"
    /\ call = NoCall
    /\ depth = 0
    /\ supplied = EmptyMap
    /\ evaluated = <<>>
    /\ result = NoExc
    /\ invocations = <<>>
    /\ targetRet = None
    /\ retval = None

\* one decorator on a target with a fixed parameter list
Init == InitWith(Signatures, {FALSE})

Next ==
    \/ Decorate(Rules, 1)
    \/ Call
    \/ Wrapped

Spec == Init /\ [][Next]_vars

\* stacked decorators on f(a, b)
InitStack == InitWith({<<"a", "b">>}, {FALSE})

NextStack ==
    \/ Decorate(StackRules, MaxStack)
    \/ Call
    \/ Wrapped

SpecStack == InitStack /\ [][NextStack]_vars

\* one decorator on a target that also declares *args
InitVariadic == InitWith({<<"a", "b">>}, {TRUE})

SpecVariadic == InitVariadic /\ [][Next]_vars

----------------------------------------------------------------------------
(* What a call passes, read off the call itself *)

Done == pc \in {"returned", "raised"}

PassedPos(n) ==
    \E i \in DOMAIN call.args :
        i <= Len(signature) /\ signature[i] = n /\ call.args[i] # None

PassedKw(n) == n \in DOMAIN call.kwargs /\ call.kwargs[n] # None

\* n was passed, positionally or by keyword, with a value that is not None
Passed(n) == PassedPos(n) \/ PassedKw(n)

PassedValue(n) ==
    IF PassedKw(n) THEN call.kwargs[n]
    ELSE call.args[CHOOSE i \in DOMAIN call.args :
                      i <= Len(signature) /\ signature[i] = n]

AllPassed == {n \in ToSet(signature) : Passed(n)}

\* a finished call of a function carrying exactly one decorator of this kind
Single(kind) == Done /\ Len(stack) = 1 /\ stack[1].kind = kind

TargetInvokedOnce ==
    pc = "returned" /\ invocations = <<call>> /\ retval = targetRet

----------------------------------------------------------------------------
(* Claims *)

\* C1: with required_parameters(names), a call raises MissingParameterError
\* exactly when some name was not passed (or passed as None); the error lists
\* all the missing names in the decorator's order; otherwise the target is
\* invoked and its result returned.
C1_RequiredParameters ==
    Single("required") =>
        LET NotPassed(n) == ~Passed(n)
            missing == SelectSeq(stack[1].names, NotPassed)
        IN  /\ (pc = "raised" /\ result.kind = "MissingParameterError")
                  <=> Len(missing) > 0
            /\ Len(missing) > 0 => result.names = missing /\ invocations = <<>>
            /\ Len(missing) = 0 => TargetInvokedOnce

\* required_parameters('b', 'a'), b not passed and a passed as None
C1_Witness ==
    /\ Single("required")
    /\ stack[1].names = <<"b", "a">>
    /\ "a" \in DOMAIN call.kwargs
    /\ "b" \notin DOMAIN call.kwargs
    /\ pc = "raised"
    /\ result.names = <<"b", "a">>

\* C2: with mutually_exclusive_parameters(names), a call raises
\* InvalidParameterError exactly when more than one of names was passed; the
\* error names every parameter supplied in the call; otherwise the target is
\* invoked.
C2_MutuallyExclusive ==
    Single("exclusive") =>
        LET present == {n \in ToSet(stack[1].names) : Passed(n)}
        IN  /\ (pc = "raised" /\ result.kind = "InvalidParameterError")
                  <=> Cardinality(present) > 1
            /\ Cardinality(present) > 1 =>
                  /\ ToSet(result.names) = AllPassed
                  /\ Len(result.names) = Cardinality(AllPassed)
                  /\ invocations = <<>>
            /\ Cardinality(present) <= 1 => TargetInvokedOnce

\* mutually_exclusive_parameters('a', 'b') on f(a, b, c) called as f(1, b=.., c=..)
C2_Witness ==
    /\ Single("exclusive")
    /\ stack[1].names = <<"a", "b">>
    /\ Len(call.args) = 1
    /\ pc = "raised"
    /\ ToSet(result.names) = {"a", "b", "c"}

\* C3: with at_least_one_of(names), a call raises MissingParameterError
\* exactly when none of names was passed; the error lists all of names;
\* otherwise the target is invoked.
C3_AtLeastOneOf ==
    Single("atleast") =>
        LET present == {n \in ToSet(stack[1].names) : Passed(n)}
        IN  /\ (pc = "raised" /\ result.kind = "MissingParameterError")
                  <=> present = {}
            /\ present = {} => result.names = stack[1].names /\ invocations = <<>>
            /\ present # {} => TargetInvokedOnce

\* at_least_one_of('a', 'b') on f(a, b, c) called with c only and a=None
C3_Witness ==
    /\ Single("atleast")
    /\ stack[1].names = <<"a", "b">>
    /\ Passed("c")
    /\ "a" \in DOMAIN call.kwargs
    /\ pc = "raised"
    /\ result.names = <<"a", "b">>

\* C4: with required_parameter_type(name, type), a call that passes name with
\* any value that is not None (falsy values included) and not an instance of
\* type raises InvalidParameterError naming the parameter, its actual and
\* its expected type; a call that does not pass name is not type-checked and
\* the target is invoked.
C4_RequiredParameterType ==
    Single("type") =>
        LET n == stack[1].names[1]
            t == stack[1].type
        IN  /\ (Passed(n) /\ ~IsInstance(PassedValue(n), t)) =>
                  /\ pc = "raised"
                  /\ result = Exc("InvalidParameterError", <<n>>,
                                  PyType(PassedValue(n)), t)
            /\ ~Passed(n) => TargetInvokedOnce

\* C5: required_parameters, mutually_exclusive_parameters and at_least_one_of
\* fail at decoration when a configured name is not a declared parameter: no
\* decorated function exists, no call is made and the target is never
\* invoked; when every name is declared the decoration succeeds.
C5_DecorationTime ==
    lastDeco.rule.kind \in GroupKinds =>
        /\ lastDeco.error <=>
              ~(ToSet(lastDeco.rule.names) \subseteq ToSet(signature))
        /\ lastDeco.error =>
              /\ pc = "configerror"
              /\ stack = <<>>
              /\ call = NoCall
              /\ evaluated = <<>>
              /\ invocations = <<>>
        /\ ~lastDeco.error =>
              /\ pc # "configerror"
              /\ stack = <<lastDeco.rule>>

\* required_parameters('a', 'c') on f(a, b)
C5_Witness ==
    /\ signature = <<"a", "b">>
    /\ lastDeco.rule.kind = "required"
    /\ lastDeco.rule.names = <<"a", "c">>
    /\ pc = "configerror"

\* C6: for each rule, a call whose check fails never reaches the target; a
\* call whose check passes reaches it exactly once, with the positional
\* arguments and keyword mapping the wrapper received, and returns its result.
C6_PassThrough ==
    /\ pc \in {"idle", "configerror", "checking", "raised"} => invocations = <<>>
    /\ pc = "raised" => result # NoExc /\ retval = None
    /\ pc = "returned" => TargetInvokedOnce /\ result = NoExc
    /\ (Done /\ Len(stack) = 1) =>
          (pc = "returned" <=> RuleCheck(stack[1], supplied) = {})

\* a type-checked call with positional and keyword arguments reaches the target
C6_Witness ==
    /\ Single("type")
    /\ pc = "returned"
    /\ Len(call.args) = 1
    /\ DOMAIN call.kwargs = {"b", "c"}
    /\ invocations = <<call>>

\* C7: stacked rules are checked from the outermost inwards: the error raised
\* is that of the outermost failing rule, no rule inside a failing rule is
\* evaluated, and the target is invoked only after every rule has passed.
C7_OutermostFirst ==
    LET n == Len(stack)
        sup == GetSuppliedArgs(signature, call.args, call.kwargs).map
        failing == {d \in 1..n : RuleCheck(stack[d], sup) # {}}
        top == CHOOSE d \in failing : \A e \in failing : e <= d
    IN  /\ \A i \in DOMAIN evaluated : evaluated[i] = n + 1 - i
        /\ pc = "checking" => invocations = <<>> /\ Len(evaluated) = n - depth
        /\ (Done /\ failing = {}) =>
              /\ pc = "returned"
              /\ Len(evaluated) = n
              /\ invocations = <<call>>
        /\ (Done /\ failing # {}) =>
              /\ pc = "raised"
              /\ result \in RuleCheck(stack[top], sup)
              /\ Len(evaluated) = n + 1 - top
              /\ invocations = <<>>

\* required_parameters('a', 'b') under required_parameter_type('a', str),
\* called so that both fail: the outer type error is raised, the inner rule
\* is not evaluated
C7_Witness ==
    /\ Len(stack) = 2
    /\ stack[1] = [kind |-> "required", names |-> <<"a", "b">>, type |-> ""]
    /\ stack[2] = [kind |-> "type", names |-> <<"a">>, type |-> "str"]
    /\ RuleCheck(stack[1], supplied) # {}
    /\ pc = "raised"
    /\ result.kind = "InvalidParameterError"
    /\ evaluated = <<2>>

\* C8: supplied_args holds a parameter exactly when it was passed
\* (positionally or by keyword) with a value that is not None, mapped to that
\* value; f(1, b=2), f(a=1, b=2) and f(1, 2) on (a, b, c) all give {a:1, b:2}.
C8_SuppliedArgs ==
    evaluated # <<>> =>
        /\ DOMAIN supplied = AllPassed
        /\ \A n \in DOMAIN supplied : supplied[n] = PassedValue(n)
        /\ (/\ signature = <<"a", "b", "c">>
            /\ call \in {[args |-> <<"1">>, kwargs |-> ("b" :> "2")],
                         [args |-> <<>>, kwargs |-> ("a" :> "1" @@ "b" :> "2")],
                         [args |-> <<"1", "2">>, kwargs |-> EmptyMap]})
              => supplied = ("a" :> "1" @@ "b" :> "2")

\* f(1, b=2, c=None) on (a, b, c)
C8_Witness ==
    /\ signature = <<"a", "b", "c">>
    /\ call = [args |-> <<"1">>, kwargs |-> ("b" :> "2" @@ "c" :> None)]
    /\ evaluated # <<>>
    /\ supplied = ("a" :> "1" @@ "b" :> "2")

\* C9: positional arguments beyond the named parameters are ignored by the
\* reconciler: it completes without error, supplied_args holds the named
\* parameters only, and the rule check proceeds.
C9_ExtraPositionalIgnored ==
    (evaluated # <<>> /\ Len(call.args) > Len(signature)) =>
        /\ result.kind # "IndexError"
        /\ DOMAIN supplied = AllPassed
        /\ pc = "returned" <=> RuleCheck(stack[1], supplied) = {}

\* C10: a function decorated twice with the same rule and configuration
\* behaves on every call as the function decorated once: the same calls
\* raise the same error, and a passing call invokes the target exactly once.
C10_Idempotent ==
    (Done /\ Len(stack) = 2 /\ stack[1] = stack[2]) =>
        LET sup == GetSuppliedArgs(signature, call.args, call.kwargs).map
            once == RuleCheck(stack[1], sup)
        IN  /\ once = {} => TargetInvokedOnce
            /\ once # {} =>
                  /\ pc = "raised"
                  /\ result \in once
                  /\ invocations = <<>>

\* at_least_one_of('a', 'b') twice, called with b only
C10_Witness ==
    /\ Len(stack) = 2
    /\ stack[1] = stack[2]
    /\ stack[1] = [kind |-> "atleast", names |-> <<"a", "b">>, type |-> ""]
    /\ pc = "returned"
    /\ Len(invocations) = 1
    /\ ~Passed("a")

====
